---- MODULE Spec2Model ----
(***************************************************************************)
(* Checkout / order-lifecycle subsystem of the e-commerce backend:         *)
(* CartService.addToCart, OrdersService.createOrderFromCart,               *)
(* OrdersService.updateOrderStatus, OrderManagementService (admin single   *)
(* and bulk status update), ProductsService and SaleService writes to the  *)
(* product documents.  Every handler is one atomic action here; a handler  *)
(* that can be cut short by a rejected await takes the failing await as an *)
(* input (fault).                                                          *)
(*                                                                         *)
(* Money is fixed point: 1 unit = 1/1000 cent, so that price * quantity,   *)
(* price * (1 - discount/100) and subtotal * 0.1 are exact integers.       *)
(***************************************************************************)
EXTENDS Integers, Sequences, FiniteSets, TLC

\* ---------------------------------------------------------------- bounds
MaxCartLen == 2
MaxQty == 2
MaxOrders == 2
NumOrderNumbers == 2
InitStock == 2

\* ------------------------------------------------------------- constants
Cent == 1000
TaxRateTenths == 1

Users == {"u1", "u2"}
Products == {"p1", "p2"}
Sizes == {"S", "M"}
Colors == {"red"}
Quantities == 1..MaxQty
OrderNumbers == 1..NumOrderNumbers
Discounts == {50}

PENDING == "pending"
CONFIRMED == "confirmed"
PROCESSING == "processing"
SHIPPED == "shipped"
DELIVERED == "delivered"
CANCELLED == "cancelled"
OrderStatus == {PENDING, CONFIRMED, PROCESSING, SHIPPED, DELIVERED, CANCELLED}

\* catalogue prices of the seeded products: 20.00 and 10.11
SeedPrice == [p \in Products |-> IF p = "p1" THEN 2000 * Cent ELSE 1011 * Cent]

VARIABLES products, carts, orders, last, checkouts, updates, gateway
vars == <<products, carts, orders, last, checkouts, updates, gateway>>

\* ------------------------------------------------------------ documents
\* Product document (exists = FALSE once findByIdAndDelete removed it).
\* salePrice = 0 stands for an unset salePrice; images is the length of
\* the images array.
Product(price) ==
  [exists |-> TRUE, isActive |-> TRUE, stock |-> InitStock, price |-> price,
   salePrice |-> 0, isOnSale |-> FALSE, images |-> 1]

\* Cart document of a user: exists = FALSE while no document was created.
Cart == [exists |-> FALSE, items |-> <<>>]

CartItem(productId, quantity, size, color) ==
  [productId |-> productId, quantity |-> quantity, size |-> size, color |-> color]

\* Response of the last handler that ran: operation, caller, order id(s),
\* requested status, outcome, the await that failed in it (fault), the
\* notifications the handler emitted, the body it returned (queries only) and
\* the statusNote it was given (OrdersService.updateOrderStatus only).
NoBody == <<>>
NoNote == "-"

NoCall ==
  [op |-> "init", user |-> "-", order |-> 0, ids |-> {}, status |-> "-",
   result |-> "-", fault |-> "none", emitted |-> <<>>, body |-> NoBody,
   note |-> NoNote]

Call(op, user, order, ids, status, result, fault, emitted) ==
  [op |-> op, user |-> user, order |-> order, ids |-> ids, status |-> status,
   result |-> result, fault |-> fault, emitted |-> emitted, body |-> NoBody,
   note |-> NoNote]

\* The WebSocket gateway: connectedClients are the ids of the connected
\* sockets, userSessions is the Map userId -> socketId as the sequence of its
\* entries in insertion order, rooms is the room membership kept by the
\* socket server, closed are the ids of the sockets that have disconnected (an
\* id is not used again).
Sockets == {"s1", "s2"}
NoClients ==
  [connectedClients |-> {}, userSessions |-> <<>>, rooms |-> {}, closed |-> {}]

\* An OrdersService.updateOrderStatus call of an admin in flight: pc is the
\* await it runs next, orderId, status and statusNote are its request, order
\* is the document findById gave it; done is the number of calls of this admin
\* that have returned successfully.
Admins == {"a1", "a2"}
NoUpdate ==
  [pc |-> "idle", orderId |-> 0, status |-> "-", statusNote |-> NoNote,
   order |-> <<>>, done |-> 0]

\* A createOrderFromCart call in flight, between two of its awaits: pc is the
\* await it runs next, items and prods are the cart and the products as
\* populated by its first query, orderNumber is the number it generated,
\* orderId is the order it saved, k is the next entry of stockUpdates to
\* write, emitted are the notifications it has sent.
\* A user has one call in flight, named by the user, except that u1 can have a
\* second one.
SecondCall == "u1/2"
Calls == Users \cup {SecondCall}
Caller(call) == IF call = SecondCall THEN "u1" ELSE call

Idle ==
  [pc |-> "idle", items |-> <<>>, prods |-> <<>>, orderNumber |-> 0,
   orderId |-> 0, k |-> 0, emitted |-> <<>>]

Init ==
  /\ products = [p \in Products |-> Product(SeedPrice[p])]
  /\ carts = [u \in Users |-> Cart]
  /\ orders = <<>>
  /\ last = NoCall
  /\ checkouts = [call \in Calls |-> Idle]
  /\ updates = [a \in Admins |-> NoUpdate]
  /\ gateway = NoClients

\* Number(x.toFixed(2)): round half up to whole cents.
toFixed2(x) == ((x + Cent \div 2) \div Cent) * Cent

\* ------------------------------------------------------------- CartService
\* addToCart: product lookup, stock check against the added quantity, then
\* merge into the entry of the same (product, size, color) or push a new entry.
RECURSIVE findItem(_, _, _, _, _)
findItem(items, i, productId, size, color) ==
  IF i > Len(items) THEN 0
  ELSE IF /\ items[i].productId = productId
          /\ items[i].size = size
          /\ items[i].color = color
       THEN i
  ELSE findItem(items, i + 1, productId, size, color)

addToCart(u, productId, quantity, size, color) ==
  UNCHANGED <<checkouts, updates, gateway>> /\ (
  LET product == products[productId]
      cart == carts[u]
      existingItem == findItem(cart.items, 1, productId, size, color)
  IN
  IF ~product.exists \/ ~product.isActive
  THEN /\ last' = Call("addToCart", u, 0, {}, "-", "ProductNotFound", "none", <<>>)
       /\ UNCHANGED <<products, carts, orders>>
  ELSE IF product.stock < quantity
  THEN /\ last' = Call("addToCart", u, 0, {}, "-", "InsufficientStock", "none", <<>>)
       /\ UNCHANGED <<products, carts, orders>>
  ELSE
    /\ IF existingItem # 0
       THEN /\ cart.items[existingItem].quantity + quantity <= MaxQty
            /\ carts' = [carts EXCEPT ![u] =
                 [exists |-> TRUE,
                  items |-> [cart.items EXCEPT ![existingItem].quantity = @ + quantity]]]
       ELSE /\ Len(cart.items) < MaxCartLen
            /\ carts' = [carts EXCEPT ![u] =
                 [exists |-> TRUE,
                  items |-> Append(cart.items, CartItem(productId, quantity, size, color))]]
    /\ last' = Call("addToCart", u, 0, {}, "-", "ok", "none", <<>>)
    /\ UNCHANGED <<products, orders>>)

\* a field the request leaves out
Undefined == "undefined"

\* updateCartItem: the entry with _id = itemId (its position in items; 0 is an
\* id no entry has) takes the quantity of the request, and its size and color
\* where the request gives them; the product and its stock are not read
updateCartItem(u, itemId, quantity, size, color) ==
  UNCHANGED <<checkouts, updates, gateway>> /\ (
  LET cart == carts[u]
      op == "updateCartItem"
  IN
  IF ~cart.exists
  THEN /\ last' = Call(op, u, itemId, {}, "-", "CartNotFound", "none", <<>>)
       /\ UNCHANGED <<products, carts, orders>>
  ELSE IF itemId \notin 1..Len(cart.items)
  THEN /\ last' = Call(op, u, itemId, {}, "-", "CartItemNotFound", "none", <<>>)
       /\ UNCHANGED <<products, carts, orders>>
  ELSE
    LET item == cart.items[itemId]
        updated == [item EXCEPT
                      !.quantity = quantity,
                      !.size = IF size # Undefined THEN size ELSE @,
                      !.color = IF color # Undefined THEN color ELSE @]
    IN
    /\ carts' = [carts EXCEPT ![u].items = [cart.items EXCEPT ![itemId] = updated]]
    /\ last' = Call(op, u, itemId, {}, "-", "ok", "none", <<>>)
    /\ UNCHANGED <<products, orders>>)

\* items.filter(keep), in order
RECURSIVE filterItems(_, _, _)
filterItems(items, i, keep) ==
  IF i > Len(items) THEN <<>>
  ELSE (IF i \in keep THEN <<items[i]>> ELSE <<>>) \o filterItems(items, i + 1, keep)

\* removeFromCart: drops every entry of the (product, size, color) given
removeFromCart(u, productId, size, color) ==
  UNCHANGED <<checkouts, updates, gateway>> /\ (
  LET cart == carts[u]
      op == "removeFromCart"
      keep == {i \in 1..Len(cart.items) :
                 ~(/\ cart.items[i].productId = productId
                   /\ cart.items[i].size = size
                   /\ cart.items[i].color = color)}
  IN
  IF ~cart.exists
  THEN /\ last' = Call(op, u, 0, {}, "-", "CartNotFound", "none", <<>>)
       /\ UNCHANGED <<products, carts, orders>>
  ELSE
    /\ carts' = [carts EXCEPT ![u].items = filterItems(cart.items, 1, keep)]
    /\ last' = Call(op, u, 0, {}, "-", "ok", "none", <<>>)
    /\ UNCHANGED <<products, orders>>)

\* removeCartItem: drops the entry with _id = itemId, if there is one
removeCartItem(u, itemId) ==
  UNCHANGED <<checkouts, updates, gateway>> /\ (
  LET cart == carts[u]
      op == "removeCartItem"
      keep == {i \in 1..Len(cart.items) : i # itemId}
  IN
  IF ~cart.exists
  THEN /\ last' = Call(op, u, itemId, {}, "-", "CartNotFound", "none", <<>>)
       /\ UNCHANGED <<products, carts, orders>>
  ELSE
    /\ carts' = [carts EXCEPT ![u].items = filterItems(cart.items, 1, keep)]
    /\ last' = Call(op, u, itemId, {}, "-", "ok", "none", <<>>)
    /\ UNCHANGED <<products, orders>>)

\* getCart's price of an entry: product?.isOnSale ? product.salePrice :
\* product?.price || 0, on the populated product (null once it is deleted)
cartPrice(product) ==
  IF ~product.exists THEN 0
  ELSE IF product.isOnSale THEN product.salePrice
  ELSE product.price

RECURSIVE cartSubtotal(_, _)
cartSubtotal(items, i) ==
  IF i > Len(items) THEN 0
  ELSE cartPrice(products[items[i].productId]) * items[i].quantity
         + cartSubtotal(items, i + 1)

\* getCart: the totals of the cart as shown to the user
getCart(u) ==
  LET cart == carts[u]
      subtotal == IF cart.exists THEN cartSubtotal(cart.items, 1) ELSE 0
      tax == (subtotal * TaxRateTenths) \div 10
      total == subtotal + tax
  IN
  /\ last' = [Call("getCart", u, 0, {}, "-", "ok", "none", <<>>) EXCEPT
                !.body = [subtotal |-> toFixed2(subtotal), tax |-> toFixed2(tax),
                          total |-> toFixed2(total)]]
  /\ UNCHANGED <<products, carts, orders, checkouts, updates, gateway>>

\* clearCart: findOneAndUpdate({$set: {items: []}}, {upsert: true})
clearCart(u) ==
  UNCHANGED <<checkouts, updates, gateway>> /\ (
  /\ carts' = [carts EXCEPT ![u] = [exists |-> TRUE, items |-> <<>>]]
  /\ last' = Call("clearCart", u, 0, {}, "-", "ok", "none", <<>>)
  /\ UNCHANGED <<products, orders>>)

\* ----------------------------------------------------------- OrdersService
\* unit price of an order item: the sale price if the product is on sale and
\* has a (truthy) sale price, the base price otherwise
itemPrice(product) ==
  IF product.isOnSale /\ product.salePrice # 0 THEN product.salePrice
  ELSE product.price

OrderItem(cartItem, product) ==
  [productId |-> cartItem.productId, price |-> itemPrice(product),
   quantity |-> cartItem.quantity, size |-> cartItem.size,
   color |-> cartItem.color, productImage |-> product.images > 0]

cartIsEmpty_MissingOnly(cart) == ~cart.exists

\* cart is missing or has no entries
cartIsEmpty(cart) == ~cart.exists \/ Len(cart.items) = 0

productUnavailable_DeletedOnly(product) == ~product.exists

\* the populated product is null or not active
productUnavailable(product) == ~product.exists \/ ~product.isActive

stockInsufficient_Never(product, cartItem) == FALSE

stockInsufficient_OutOfStock(product, cartItem) == product.stock < 1

\* the product has less stock than the entry asks for
stockInsufficient(product, cartItem) == product.stock < cartItem.quantity

\* The validation loop over cart.items, on the products as populated by the
\* cart query.  It stops at the first entry that is unavailable or short of
\* stock; otherwise it collects orderItems, subtotal and stockUpdates.
RECURSIVE validateCart(_, _, _, _)
validateCart(prods, items, i, acc) ==
  IF i > Len(items) THEN acc
  ELSE
    LET cartItem == items[i]
        product == prods[cartItem.productId]
    IN
    IF productUnavailable(product)
    THEN [acc EXCEPT !.error = "ProductUnavailable"]
    ELSE IF stockInsufficient(product, cartItem)
    THEN [acc EXCEPT !.error = "InsufficientStock"]
    ELSE validateCart(prods, items, i + 1,
           [error |-> "none",
            orderItems |-> Append(acc.orderItems, OrderItem(cartItem, product)),
            subtotal |-> acc.subtotal + itemPrice(product) * cartItem.quantity,
            stockUpdates |-> Append(acc.stockUpdates,
               [productId |-> cartItem.productId,
                newStock |-> product.stock - cartItem.quantity])])

NoItems == [error |-> "none", orderItems |-> <<>>, subtotal |-> 0, stockUpdates |-> <<>>]

\* orderNotes is the sequence of the lines of the notes text; its first line
\* is the text given at checkout ('Order placed via demo cart' by default)
CreationNote == <<"-", "Order placed via demo cart">>

\* the order document built from the validated cart
newOrder(u, orderNumber, v) ==
  LET subtotal == v.subtotal
      tax == (subtotal * TaxRateTenths) \div 10
      total == subtotal + tax
  IN [userId |-> u, orderNumber |-> orderNumber, items |-> v.orderItems,
      subtotal |-> toFixed2(subtotal), tax |-> toFixed2(tax),
      total |-> toFixed2(total), status |-> PENDING, orderNotes |-> <<CreationNote>>]

saveRejected_ImageOnly(order) ==
  \E i \in 1..Len(order.items) : ~order.items[i].productImage

\* order.save() is rejected by the schema: orderNumber is a unique index and
\* OrderItem.productImage is a required string, which '' does not satisfy
saveRejected(order) ==
  \/ \E i \in 1..Len(orders) : orders[i].orderNumber = order.orderNumber
  \/ \E i \in 1..Len(order.items) : ~order.items[i].productImage

\* the stock write loop: findByIdAndUpdate(productId, {stock: newStock}) for
\* the first n stockUpdates, in order
RECURSIVE writeStock(_, _, _, _)
writeStock(prods, stockUpdates, i, n) ==
  IF i > n THEN prods
  ELSE LET su == stockUpdates[i] IN
       writeStock(IF prods[su.productId].exists
                  THEN [prods EXCEPT ![su.productId].stock = su.newStock]
                  ELSE prods,
                  stockUpdates, i + 1, n)

emptied_Kept(cart) == cart

\* the cart after findOneAndUpdate({$set: {items: []}})
emptied(cart) == [cart EXCEPT !.items = <<>>]

\* Faults: the await that rejects.  at = "stock" with k: the k-th stock write.
Faults ==
  {[at |-> a, k |-> 0] : a \in {"none", "save", "notify", "cart"}}
    \cup {[at |-> "stock", k |-> k] : k \in 1..MaxCartLen}

NewOrderNotification(orderId) ==
  [room |-> "admin", event |-> "new_order_notification", orderId |-> orderId,
   status |-> PENDING]

createOrderFromCart(u, orderNumber, fault) ==
  UNCHANGED <<checkouts, updates, gateway>> /\ (
  LET cart == carts[u]
      op == "createOrderFromCart"
  IN
  IF cartIsEmpty(cart)
  THEN /\ last' = Call(op, u, 0, {}, "-", "CartEmpty", "none", <<>>)
       /\ UNCHANGED <<products, carts, orders>>
  ELSE
    LET v == validateCart(products, cart.items, 1, NoItems)
        order == newOrder(u, orderNumber, v)
        n == Len(v.stockUpdates)
    IN
    IF v.error # "none"
    THEN /\ last' = Call(op, u, 0, {}, "-", v.error, "none", <<>>)
         /\ UNCHANGED <<products, carts, orders>>
    ELSE IF fault.at = "save" \/ saveRejected(order)
    THEN /\ last' = Call(op, u, 0, {}, "-", "CheckoutFailed",
                          IF fault.at = "save" THEN "save" ELSE "none", <<>>)
         /\ UNCHANGED <<products, carts, orders>>
    ELSE
      /\ Len(orders) < MaxOrders
      /\ fault.at = "stock" => fault.k <= n
      /\ orders' = Append(orders, order)
      /\ IF fault.at = "notify"
         THEN /\ last' = Call(op, u, Len(orders) + 1, {}, "-", "CheckoutFailed", fault.at, <<>>)
              /\ UNCHANGED <<products, carts>>
         ELSE IF fault.at = "stock"
         THEN /\ products' = writeStock(products, v.stockUpdates, 1, fault.k - 1)
              /\ last' = Call(op, u, Len(orders) + 1, {}, "-", "CheckoutFailed", fault.at,
                              <<NewOrderNotification(Len(orders) + 1)>>)
              /\ UNCHANGED carts
         ELSE IF fault.at = "cart"
         THEN /\ products' = writeStock(products, v.stockUpdates, 1, n)
              /\ last' = Call(op, u, Len(orders) + 1, {}, "-", "CheckoutFailed", fault.at,
                              <<NewOrderNotification(Len(orders) + 1)>>)
              /\ UNCHANGED carts
         ELSE /\ products' = writeStock(products, v.stockUpdates, 1, n)
              /\ carts' = [carts EXCEPT ![u] = emptied(cart)]
              /\ last' = Call(op, u, Len(orders) + 1, {}, "-", "ok", fault.at,
                              <<NewOrderNotification(Len(orders) + 1)>>))

getValidStatusTransitions_Reopen(currentStatus) ==
  CASE currentStatus = PENDING -> {CONFIRMED, CANCELLED}
    [] currentStatus = CONFIRMED -> {PROCESSING, CANCELLED}
    [] currentStatus = PROCESSING -> {SHIPPED, CANCELLED}
    [] currentStatus = SHIPPED -> {DELIVERED, PENDING}
    [] OTHER -> {}

\* getValidStatusTransitions: the transition table
getValidStatusTransitions(currentStatus) ==
  CASE currentStatus = PENDING -> {CONFIRMED, CANCELLED}
    [] currentStatus = CONFIRMED -> {PROCESSING, CANCELLED}
    [] currentStatus = PROCESSING -> {SHIPPED, CANCELLED}
    [] currentStatus = SHIPPED -> {DELIVERED}
    [] currentStatus = DELIVERED -> {}
    [] currentStatus = CANCELLED -> {}
    [] OTHER -> {}

StatusNotification_ToAdmins(userId, orderId, status) ==
  [room |-> "admin", event |-> "order_status_update", orderId |-> orderId,
   status |-> status]

\* sendOrderStatusUpdate: sendToUser(userId, 'order_status_update', ...), an
\* emit to the room user:<userId>
StatusNotification(userId, orderId, status) ==
  [room |-> userId, event |-> "order_status_update", orderId |-> orderId,
   status |-> status]

StatusNotes == {NoNote, "note"}
MaxNotes == 2

\* order ids: 1..Len(orders) are the stored orders, the other naturals are
\* well-formed ObjectIds of no order, MalformedId is a string that is not an
\* ObjectId
MalformedId == -1
OrderIds == {MalformedId} \cup (0..MaxOrders)

getOrderById_AnyOwner(userId, orderId) ==
  /\ UNCHANGED <<products, carts, orders, checkouts, updates, gateway>>
  /\ LET op == "getOrderById" IN
     IF orderId = MalformedId
     THEN last' = Call(op, userId, orderId, {}, "-", "GetOrderFailed", "none", <<>>)
     ELSE IF orderId \notin 1..Len(orders)
     THEN last' = Call(op, userId, orderId, {}, "-", "OrderNotFound", "none", <<>>)
     ELSE last' = [Call(op, userId, orderId, {}, "-", "ok", "none", <<>>)
                     EXCEPT !.body = <<orders[orderId]>>]

\* getOrderById: new Types.ObjectId(orderId) throws on a malformed id (caught
\* and rethrown as 'Failed to get order'); findOne({_id, userId}) finds the
\* order only for its owner; the body is the order found
getOrderById(userId, orderId) ==
  /\ UNCHANGED <<products, carts, orders, checkouts, updates, gateway>>
  /\ LET op == "getOrderById" IN
     IF orderId = MalformedId
     THEN last' = Call(op, userId, orderId, {}, "-", "GetOrderFailed", "none", <<>>)
     ELSE IF orderId \notin 1..Len(orders) \/ orders[orderId].userId # userId
     THEN last' = Call(op, userId, orderId, {}, "-", "OrderNotFound", "none", <<>>)
     ELSE last' = [Call(op, userId, orderId, {}, "-", "ok", "none", <<>>)
                     EXCEPT !.body = <<orders[orderId]>>]

\* countDocuments({status})
countDocuments(status) ==
  Cardinality({i \in 1..Len(orders) : orders[i].status = status})

\* aggregate([{$match: {status: delivered}}, {$group: {$sum: '$total'}}])
RECURSIVE deliveredRevenue(_)
deliveredRevenue(i) ==
  IF i > Len(orders) THEN 0
  ELSE (IF orders[i].status = DELIVERED THEN orders[i].total ELSE 0)
       + deliveredRevenue(i + 1)

\* getOrderStatistics: the body holds totalOrders, the five per-status counts
\* the handler queries and returns, and the revenue of the delivered orders
getOrderStatistics ==
  /\ UNCHANGED <<products, carts, orders, checkouts, updates, gateway>>
  /\ last' = [Call("getOrderStatistics", "-", 0, {}, "-", "ok", "none", <<>>)
                EXCEPT !.body =
                  [totalOrders |-> Len(orders),
                   pendingOrders |-> countDocuments(PENDING),
                   processingOrders |-> countDocuments(PROCESSING),
                   shippedOrders |-> countDocuments(SHIPPED),
                   deliveredOrders |-> countDocuments(DELIVERED),
                   cancelledOrders |-> countDocuments(CANCELLED),
                   totalRevenue |-> toFixed2(deliveredRevenue(1))]]

appendNote_Overwrite(orderNotes, status, statusNote) == <<<<status, statusNote>>>>

\* orderNotes = (orderNotes || '') + '\n[time] Status changed to <status>: <note>'
appendNote(orderNotes, status, statusNote) ==
  Append(orderNotes, <<status, statusNote>>)

updateOrderStatus_NotifyFirst(orderId, status, statusNote, fault) ==
  UNCHANGED <<checkouts, updates, gateway>> /\ (
  LET Reply(result, f, emitted) ==
        [Call("updateOrderStatus", "-", orderId, {}, status, result, f, emitted)
           EXCEPT !.note = statusNote]
  IN
  IF orderId \notin 1..Len(orders)
  THEN /\ last' = Reply("OrderNotFound", "none", <<>>)
       /\ UNCHANGED <<products, carts, orders>>
  ELSE
    LET order == orders[orderId]
        validTransitions == getValidStatusTransitions(order.status)
        notes == IF statusNote # NoNote
                 THEN appendNote(order.orderNotes, status, statusNote)
                 ELSE order.orderNotes
    IN
    IF status \notin validTransitions
    THEN /\ last' = Reply("InvalidTransition", "none", <<>>)
         /\ UNCHANGED <<products, carts, orders>>
    ELSE IF fault = "save"
    THEN /\ last' = Reply("UpdateFailed", fault, <<>>)
         /\ UNCHANGED <<products, carts, orders>>
    ELSE
      /\ Len(notes) <= MaxNotes + 1
      /\ IF fault = "notify"
         THEN /\ last' = Reply("UpdateFailed", fault, <<>>)
              /\ UNCHANGED orders
         ELSE /\ last' = Reply("ok", fault,
                              <<StatusNotification(order.userId, orderId, status)>>)
              /\ orders' = [orders EXCEPT ![orderId].status = status,
                                          ![orderId].orderNotes = notes]
      /\ UNCHANGED <<products, carts>>)

\* OrdersService.updateOrderStatus(orderId, {status, statusNote}); orderId is
\* a position in orders or an id that no order has (0)
updateOrderStatus(orderId, status, statusNote, fault) ==
  UNCHANGED <<checkouts, updates, gateway>> /\ (
  LET Reply(result, f, emitted) ==
        [Call("updateOrderStatus", "-", orderId, {}, status, result, f, emitted)
           EXCEPT !.note = statusNote]
  IN
  IF orderId \notin 1..Len(orders)
  THEN /\ last' = Reply("OrderNotFound", "none", <<>>)
       /\ UNCHANGED <<products, carts, orders>>
  ELSE
    LET order == orders[orderId]
        validTransitions == getValidStatusTransitions(order.status)
        notes == IF statusNote # NoNote
                 THEN appendNote(order.orderNotes, status, statusNote)
                 ELSE order.orderNotes
    IN
    IF status \notin validTransitions
    THEN /\ last' = Reply("InvalidTransition", "none", <<>>)
         /\ UNCHANGED <<products, carts, orders>>
    ELSE IF fault = "save"
    THEN /\ last' = Reply("UpdateFailed", fault, <<>>)
         /\ UNCHANGED <<products, carts, orders>>
    ELSE
      /\ Len(notes) <= MaxNotes + 1
      /\ orders' = [orders EXCEPT ![orderId].status = status,
                                  ![orderId].orderNotes = notes]
      /\ IF fault = "notify"
         THEN last' = Reply("UpdateFailed", fault, <<>>)
         ELSE last' = Reply("ok", fault,
                           <<StatusNotification(order.userId, orderId, status)>>)
      /\ UNCHANGED <<products, carts>>)

\* -------------------------------------------------- OrderManagementService
setUpdateData_Replace(order, status) ==
  [order EXCEPT !.status = status, !.items = <<>>, !.subtotal = 0, !.total = 0]

\* {$set: updateData} with updateData = {status}: sets the status and leaves
\* every other stored field (trackingNumber and adminNotes are not modelled;
\* adminNotes is not a field of the Order schema)
setUpdateData(order, status) == [order EXCEPT !.status = status]

\* updateOrderStatus of the admin dashboard: findById, then
\* findByIdAndUpdate({$set: {status}}) and a notification to the owner
adminUpdateOrderStatus(orderId, status) ==
  UNCHANGED <<checkouts, updates, gateway>> /\ (
  LET op == "adminUpdateOrderStatus" IN
  IF orderId \notin 1..Len(orders)
  THEN /\ last' = Call(op, "-", orderId, {}, status, "OrderNotFound", "none", <<>>)
       /\ UNCHANGED <<products, carts, orders>>
  ELSE
    /\ orders' = [orders EXCEPT ![orderId] = setUpdateData(@, status)]
    /\ last' = Call(op, "-", orderId, {}, status, "ok", "none",
                    <<StatusNotification(orders[orderId].userId, orderId, status)>>)
    /\ UNCHANGED <<products, carts>>)

\* notifications of the bulk update, one per order found, in id order
RECURSIVE bulkNotifications(_, _, _)
bulkNotifications(orderIds, i, status) ==
  IF i > Len(orders) THEN <<>>
  ELSE IF i \in orderIds
       THEN <<StatusNotification(orders[i].userId, i, status)>>
              \o bulkNotifications(orderIds, i + 1, status)
       ELSE bulkNotifications(orderIds, i + 1, status)

\* bulkUpdateOrders({orderIds, status}): updateMany({_id: {$in: orderIds}},
\* {$set: {status}}), then a notification per order that was found
bulkUpdateOrders(orderIds, status) ==
  UNCHANGED <<checkouts, updates, gateway>> /\ (
  LET op == "bulkUpdateOrders" IN
  IF orderIds = {}
  THEN /\ last' = Call(op, "-", 0, orderIds, status, "OrderIdsRequired", "none", <<>>)
       /\ UNCHANGED <<products, carts, orders>>
  ELSE
    /\ orders' = [i \in 1..Len(orders) |->
                    IF i \in orderIds THEN setUpdateData(orders[i], status)
                    ELSE orders[i]]
    /\ last' = Call(op, "-", 0, orderIds, status, "ok", "none",
                    bulkNotifications(orderIds, 1, status))
    /\ UNCHANGED <<products, carts>>)

\* --------------------------------------------- ProductsService, SaleService
\* a deleted product document: no field of it can be read any more
Deleted ==
  [exists |-> FALSE, isActive |-> FALSE, stock |-> 0, price |-> 0,
   salePrice |-> 0, isOnSale |-> FALSE, images |-> 0]

\* deleteProduct: findByIdAndDelete
deleteProduct(p) ==
  UNCHANGED <<checkouts, updates, gateway>> /\ (
  /\ products[p].exists
  /\ products' = [products EXCEPT ![p] = Deleted]
  /\ last' = Call("deleteProduct", "-", 0, {}, "-", "ok", "none", <<>>)
  /\ UNCHANGED <<carts, orders>>)

\* updateProduct with {isActive, stock}
updateProduct(p, isActive, stock) ==
  UNCHANGED <<checkouts, updates, gateway>> /\ (
  /\ products[p].exists
  /\ products' = [products EXCEPT ![p].isActive = isActive, ![p].stock = stock]
  /\ last' = Call("updateProduct", "-", 0, {}, "-", "ok", "none", <<>>)
  /\ UNCHANGED <<carts, orders>>)

\* updateProduct with {price}
updateProduct_price(p, price) ==
  UNCHANGED <<checkouts, updates, gateway>> /\ (
  /\ products[p].exists
  /\ products' = [products EXCEPT ![p].price = price]
  /\ last' = Call("updateProduct", "-", 0, {}, "-", "ok", "none", <<>>)
  /\ UNCHANGED <<carts, orders>>)

\* deleteProductImage: $pull of an image of the product
deleteProductImage(p) ==
  UNCHANGED <<checkouts, updates, gateway>> /\ (
  /\ products[p].exists
  /\ products[p].images > 0
  /\ products' = [products EXCEPT ![p].images = @ - 1]
  /\ last' = Call("deleteProductImage", "-", 0, {}, "-", "ok", "none", <<>>)
  /\ UNCHANGED <<carts, orders>>)

\* applySaleToProducts with {productIds: [p], discountPercentage}
applySaleToProducts(p, discountPercentage) ==
  UNCHANGED <<checkouts, updates, gateway>> /\ (
  /\ products[p].exists
  /\ products' = [products EXCEPT
       ![p].isOnSale = TRUE,
       ![p].salePrice = (products[p].price * (100 - discountPercentage)) \div 100]
  /\ last' = Call("applySaleToProducts", "-", 0, {}, "-", "ok", "none", <<>>)
  /\ UNCHANGED <<carts, orders>>)

\* ------------------------------------- createOrderFromCart, await by await
\* The same handler as createOrderFromCart above, one action per await, so
\* that calls of several users interleave.  No await fails here.
stockUpdatesOf(c) == validateCart(c.prods, c.items, 1, NoItems).stockUpdates

\* cartModel.findOne(...).populate(...), the empty check, the validation loop
\* and generateOrderNumber()
createOrderFromCart_read(call, orderNumber) ==
  LET u == Caller(call)
      cart == carts[u]
      v == validateCart(products, cart.items, 1, NoItems)
      op == "createOrderFromCart"
  IN
  /\ checkouts[call].pc = "idle"
  /\ UNCHANGED <<updates, gateway>>
  /\ UNCHANGED <<products, carts, orders>>
  /\ IF cartIsEmpty(cart)
     THEN /\ last' = Call(op, u, 0, {}, "-", "CartEmpty", "none", <<>>)
          /\ UNCHANGED checkouts
     ELSE IF v.error # "none"
     THEN /\ last' = Call(op, u, 0, {}, "-", v.error, "none", <<>>)
          /\ UNCHANGED checkouts
     ELSE /\ checkouts' = [checkouts EXCEPT ![call] =
                 [pc |-> "save", items |-> cart.items, prods |-> products,
                  orderNumber |-> orderNumber, orderId |-> 0, k |-> 0,
                  emitted |-> <<>>]]
          /\ UNCHANGED last

\* order.save()
createOrderFromCart_save(call) ==
  LET u == Caller(call)
      c == checkouts[call]
      order == newOrder(u, c.orderNumber, validateCart(c.prods, c.items, 1, NoItems))
  IN
  /\ c.pc = "save"
  /\ UNCHANGED <<updates, gateway>>
  /\ UNCHANGED <<products, carts>>
  /\ IF saveRejected(order)
     THEN /\ last' = Call("createOrderFromCart", u, 0, {}, "-", "CheckoutFailed", "none", <<>>)
          /\ checkouts' = [checkouts EXCEPT ![call] = Idle]
          /\ UNCHANGED orders
     ELSE /\ Len(orders) < MaxOrders
          /\ orders' = Append(orders, order)
          /\ checkouts' = [checkouts EXCEPT ![call].pc = "notify",
                                             ![call].orderId = Len(orders) + 1]
          /\ UNCHANGED last

\* userModel.findById and notificationService.notifyNewOrder
createOrderFromCart_notify(call) ==
  LET c == checkouts[call] IN
  /\ c.pc = "notify"
  /\ UNCHANGED <<updates, gateway>>
  /\ checkouts' = [checkouts EXCEPT ![call].pc = "stock", ![call].k = 1,
                     ![call].emitted = <<NewOrderNotification(c.orderId)>>]
  /\ UNCHANGED <<products, carts, orders, last>>

\* one productModel.findByIdAndUpdate(productId, {stock: newStock}) of the loop
createOrderFromCart_stock(call) ==
  LET c == checkouts[call]
      stockUpdates == stockUpdatesOf(c)
  IN
  /\ c.pc = "stock"
  /\ UNCHANGED <<updates, gateway>>
  /\ c.k <= Len(stockUpdates)
  /\ products' = writeStock(products, <<stockUpdates[c.k]>>, 1, 1)
  /\ checkouts' = [checkouts EXCEPT ![call].k = @ + 1]
  /\ UNCHANGED <<carts, orders, last>>

\* cartModel.findOneAndUpdate({$set: {items: []}}) and the return
createOrderFromCart_cart(call) ==
  LET u == Caller(call)
      c == checkouts[call]
  IN
  /\ c.pc = "stock"
  /\ UNCHANGED <<updates, gateway>>
  /\ c.k > Len(stockUpdatesOf(c))
  /\ carts' = [carts EXCEPT ![u] = emptied(carts[u])]
  /\ last' = Call("createOrderFromCart", u, c.orderId, {}, "-", "ok", "none", c.emitted)
  /\ checkouts' = [checkouts EXCEPT ![call] = Idle]
  /\ UNCHANGED <<products, orders>>

\* The same handler as updateOrderStatus above, one action per await, so that
\* the calls of two admins interleave.  No await fails here.
MaxUpdates == 5

RECURSIVE doneBy(_)
doneBy(as) ==
  IF as = {} THEN 0
  ELSE LET a == CHOOSE a \in as : TRUE IN updates[a].done + doneBy(as \ {a})

\* the calls that have returned successfully, and the calls in flight
SuccessfulUpdates == doneBy(Admins)
InFlight == {a \in Admins : updates[a].pc # "idle"}

\* orderModel.findById and the transition check
updateOrderStatus_read(a, orderId, status, statusNote) ==
  LET Reply(result) ==
        [Call("updateOrderStatus", "-", orderId, {}, status, result, "none", <<>>)
           EXCEPT !.note = statusNote]
  IN
  /\ updates[a].pc = "idle"
  /\ UNCHANGED <<products, carts, orders, checkouts, gateway>>
  /\ IF orderId \notin 1..Len(orders)
     THEN last' = Reply("OrderNotFound") /\ UNCHANGED updates
     ELSE IF status \notin getValidStatusTransitions(orders[orderId].status)
     THEN last' = Reply("InvalidTransition") /\ UNCHANGED updates
     ELSE /\ Len(orders[orderId].orderNotes) <= MaxNotes
          /\ SuccessfulUpdates + Cardinality(InFlight) < MaxUpdates
          /\ updates' = [updates EXCEPT ![a] =
               [pc |-> "save", orderId |-> orderId, status |-> status,
                statusNote |-> statusNote, order |-> orders[orderId],
                done |-> updates[a].done]]
          /\ UNCHANGED last

\* order.save(): writes the paths the handler modified on its document, the
\* status and, with a statusNote, the notes it read plus its line
updateOrderStatus_save(a) ==
  LET c == updates[a] IN
  /\ c.pc = "save"
  /\ orders' = [orders EXCEPT
                  ![c.orderId].status = c.status,
                  ![c.orderId].orderNotes =
                     IF c.statusNote # NoNote
                     THEN appendNote(c.order.orderNotes, c.status, c.statusNote)
                     ELSE @]
  /\ updates' = [updates EXCEPT ![a].pc = "notify"]
  /\ UNCHANGED <<products, carts, last, checkouts, gateway>>

\* notificationService.sendOrderStatusUpdate and the return
updateOrderStatus_notify(a) ==
  LET c == updates[a] IN
  /\ c.pc = "notify"
  /\ last' = [Call("updateOrderStatus", "-", c.orderId, {}, c.status, "ok", "none",
                   <<StatusNotification(c.order.userId, c.orderId, c.status)>>)
                EXCEPT !.note = c.statusNote]
  /\ updates' = [updates EXCEPT ![a] = [NoUpdate EXCEPT !.done = c.done + 1]]
  /\ UNCHANGED <<products, carts, orders, checkouts, gateway>>

\* ------------------------------------------------- WebSocketGatewayHandler
\* the room `user:${userId}`
UserRoom(userId) == <<"user", userId>>
Rooms == {UserRoom(u) : u \in Users}

\* position of the entry of userId in the Map, 0 if it has none
RECURSIVE sessionOf(_, _, _)
sessionOf(sessions, i, userId) ==
  IF i > Len(sessions) THEN 0
  ELSE IF sessions[i].userId = userId THEN i
  ELSE sessionOf(sessions, i + 1, userId)

\* position of the first entry, in insertion order, that holds socketId
RECURSIVE firstSessionWith(_, _, _)
firstSessionWith(sessions, i, socketId) ==
  IF i > Len(sessions) THEN 0
  ELSE IF sessions[i].socketId = socketId THEN i
  ELSE firstSessionWith(sessions, i + 1, socketId)

\* Map.set: an existing key keeps its place, a new key goes last
setSession(sessions, userId, socketId) ==
  LET i == sessionOf(sessions, 1, userId) IN
  IF i # 0 THEN [sessions EXCEPT ![i].socketId = socketId]
  ELSE Append(sessions, [userId |-> userId, socketId |-> socketId])

\* Map.delete of the entry at position i
deleteSession(sessions, i) ==
  SubSeq(sessions, 1, i - 1) \o SubSeq(sessions, i + 1, Len(sessions))

handleConnection(client) ==
  /\ client \notin gateway.connectedClients \cup gateway.closed
  /\ gateway' = [gateway EXCEPT !.connectedClients = @ \cup {client}]
  /\ UNCHANGED <<products, carts, orders, last, checkouts, updates>>

\* handleDisconnect: the socket has left its rooms; the loop deletes the first
\* entry of userSessions that holds its id and stops
handleDisconnect(client) ==
  /\ client \in gateway.connectedClients
  /\ LET i == firstSessionWith(gateway.userSessions, 1, client) IN
     gateway' = [connectedClients |-> gateway.connectedClients \ {client},
                 userSessions |-> IF i # 0 THEN deleteSession(gateway.userSessions, i)
                                  ELSE gateway.userSessions,
                 rooms |-> {m \in gateway.rooms : m[1] # client},
                 closed |-> gateway.closed \cup {client}]
  /\ UNCHANGED <<products, carts, orders, last, checkouts, updates>>

handleJoinUserRoom(client, userId) ==
  /\ client \in gateway.connectedClients
  /\ gateway' = [gateway EXCEPT
                   !.userSessions = setSession(@, userId, client),
                   !.rooms = @ \cup {<<client, UserRoom(userId)>>}]
  /\ UNCHANGED <<products, carts, orders, last, checkouts, updates>>

handleLeaveRoom(client, room) ==
  /\ client \in gateway.connectedClients
  /\ gateway' = [gateway EXCEPT !.rooms = @ \ {<<client, room>>}]
  /\ UNCHANGED <<products, carts, orders, last, checkouts, updates>>

\* userSessions.has(userId)
isUserOnline(userId) == sessionOf(gateway.userSessions, 1, userId) # 0

\* ----------------------------------------------------------- specifications
AddToCartStep ==
  \E u \in Users, p \in Products, q \in Quantities, sz \in Sizes, c \in Colors :
    addToCart(u, p, q, sz, c)

CheckoutStep ==
  \E u \in Users, n \in OrderNumbers, f \in Faults : createOrderFromCart(u, n, f)

UpdateStatusStep ==
  \E o \in 0..MaxOrders, st \in OrderStatus, note \in StatusNotes,
     f \in {"none", "save", "notify"} : updateOrderStatus(o, st, note, f)

AdminUpdateStatusStep ==
  \E o \in 0..MaxOrders, st \in OrderStatus : adminUpdateOrderStatus(o, st)

BulkUpdateStep ==
  \E ids \in SUBSET (1..MaxOrders), st \in OrderStatus : bulkUpdateOrders(ids, st)

DeleteProductStep == \E p \in Products : deleteProduct(p)
\* an admin edit deactivates or reactivates the product, or sets its stock
StockEdits == {1}
UpdateProductStep ==
  \E p \in Products :
    \/ \E a \in BOOLEAN : updateProduct(p, a, products[p].stock)
    \/ \E st \in StockEdits : updateProduct(p, products[p].isActive, st)
DeleteImageStep == \E p \in Products : deleteProductImage(p)
ApplySaleStep == \E p \in Products, d \in Discounts : applySaleToProducts(p, d)

Next ==
  \/ AddToCartStep
  \/ \E u \in Users : clearCart(u)
  \/ CheckoutStep
  \/ UpdateStatusStep
  \/ AdminUpdateStatusStep
  \/ BulkUpdateStep
  \/ DeleteProductStep
  \/ UpdateProductStep
  \/ DeleteImageStep
  \/ ApplySaleStep
  \/ \E u \in Users, o \in OrderIds : getOrderById(u, o)
  \/ \E u \in Users : getCart(u)
  \/ \E u \in Users, i \in 0..MaxCartLen, q \in Quantities,
        sz \in Sizes \cup {Undefined}, c \in Colors \cup {Undefined} :
       updateCartItem(u, i, q, sz, c)
  \/ \E u \in Users, p \in Products, sz \in Sizes, c \in Colors : removeFromCart(u, p, sz, c)
  \/ \E u \in Users, i \in 0..MaxCartLen : removeCartItem(u, i)
  \/ getOrderStatistics
  \/ \E client \in Sockets : handleConnection(client)
  \/ \E client \in Sockets, u \in Users : handleJoinUserRoom(client, u)
  \/ \E client \in Sockets, room \in Rooms : handleLeaveRoom(client, room)
  \/ \E client \in Sockets : handleDisconnect(client)

Spec == Init /\ [][Next]_vars

NoFault == [at |-> "none", k |-> 0]

\* carts are filled and the catalogue is edited before the first order
Shopping == orders = <<>>
AllIdle == \A call \in Calls : checkouts[call].pc = "idle"

ShopStep ==
  /\ Shopping
  /\ \E p \in Products, q \in Quantities, sz \in Sizes, c \in Colors :
       addToCart("u1", p, q, sz, c)
RivalShopStep == Shopping /\ addToCart("u2", "p1", 1, "S", "red")
ClearCartStep == Shopping /\ \E u \in Users : clearCart(u)
CheckoutNoFaultStep ==
  \E u \in Users, n \in OrderNumbers : createOrderFromCart(u, n, NoFault)

\* Checkout against a changing catalogue.  u1 fills a cart with any variants,
\* u2 competes for p1; checkouts go on after the first order.
NextCheckout ==
  \/ CheckoutStep
  \/ ShopStep
  \/ RivalShopStep
  \/ ClearCartStep
  \/ Shopping /\ DeleteProductStep
  \/ Shopping /\ UpdateProductStep

SpecCheckout == Init /\ [][NextCheckout]_vars

\* The validation phase of the checkout: u1's cart against a catalogue whose
\* products are deactivated, deleted or restocked.
NextValidate ==
  \/ CheckoutNoFaultStep
  \/ ShopStep
  \/ ClearCartStep
  \/ Shopping /\ DeleteProductStep
  \/ Shopping /\ UpdateProductStep

SpecValidate == Init /\ [][NextValidate]_vars

\* Checkout without faults on products with sale prices and images.
NextPricing ==
  \/ CheckoutNoFaultStep
  \/ ShopStep
  \/ RivalShopStep
  \/ Shopping /\ ApplySaleStep
  \/ Shopping /\ DeleteImageStep

SpecPricing == Init /\ [][NextPricing]_vars

\* The order status engine and the admin updates on orders created by checkout.
NextStatus ==
  \/ Shopping /\ \E u \in Users : addToCart(u, "p1", 1, "S", "red")
  \/ CheckoutNoFaultStep
  \/ \E o \in 0..MaxOrders, st \in OrderStatus, f \in {"none", "save", "notify"} :
       updateOrderStatus(o, st, NoNote, f)
  \/ AdminUpdateStatusStep
  \/ BulkUpdateStep

SpecStatus == Init /\ [][NextStatus]_vars

\* Everything that happens after orders were created: status updates with and
\* without notes, price and sale edits and deletions of the ordered products,
\* cart operations and later checkouts.
\* Both users order p1.  The first order goes through the status engine,
\* with notes; the admin delivers the second order or cancels both; p1 is
\* repriced, put on sale or deleted once an order exists.
NewPrices == {1500 * Cent}
Placed == orders # <<>>
Untouched(p) == products[p].price = SeedPrice[p] /\ ~products[p].isOnSale

NextFrozen ==
  \/ Shopping /\ \E u \in Users : addToCart(u, "p1", 1, "S", "red")
  \/ CheckoutNoFaultStep
  \/ \E st \in OrderStatus, note \in StatusNotes : updateOrderStatus(1, st, note, "none")
  \/ adminUpdateOrderStatus(MaxOrders, DELIVERED)
  \/ bulkUpdateOrders(1..MaxOrders, CANCELLED)
  \/ Placed /\ Untouched("p1") /\ \E pr \in NewPrices : updateProduct_price("p1", pr)
  \/ Placed /\ Untouched("p1") /\ \E d \in Discounts : applySaleToProducts("p1", d)
  \/ Placed /\ deleteProduct("p1")
  \/ Placed /\ \E u \in Users : clearCart(u)

SpecFrozen == Init /\ [][NextFrozen]_vars

\* Both users order p1, the admin delivers orders, and each user asks for
\* orders by id: their own, the other's, ids of no order and malformed ids.
GetOrderStep == \E u \in Users, o \in OrderIds : getOrderById(u, o)

NextLookup ==
  \/ Shopping /\ \E u \in Users, q \in Quantities : addToCart(u, "p1", q, "S", "red")
  \/ CheckoutNoFaultStep
  \/ \E o \in 1..MaxOrders : adminUpdateOrderStatus(o, DELIVERED)
  \/ GetOrderStep

SpecLookup == Init /\ [][NextLookup]_vars

\* u1 fills a cart while products are put on sale, with 50 % or 100 % off,
\* looks at the cart and checks out.
SaleDiscounts == {50, 100}

NextSale ==
  \/ Shopping /\ \E p \in Products, q \in Quantities : addToCart("u1", p, q, "S", "red")
  \/ Shopping /\ \E p \in Products, d \in SaleDiscounts : applySaleToProducts(p, d)
  \/ getCart("u1")
  \/ CheckoutNoFaultStep

SpecSale == Init /\ [][NextSale]_vars

\* Orders are placed and moved through the status engine, and the admin reads
\* the statistics.
NextStats ==
  \/ Shopping /\ \E u \in Users : addToCart(u, "p1", 1, "S", "red")
  \/ CheckoutNoFaultStep
  \/ \E o \in 1..MaxOrders, st \in OrderStatus : updateOrderStatus(o, st, NoNote, "none")
  \/ getOrderStatistics

SpecStats == Init /\ [][NextStats]_vars

\* u1 edits a cart of p1 in two sizes through every cart write, while the
\* admin edits the stock of p1.
ItemIds == 0..MaxCartLen

NextCart ==
  \/ \E q \in Quantities, sz \in Sizes : addToCart("u1", "p1", q, sz, "red")
  \/ \E i \in ItemIds, q \in Quantities, sz \in Sizes \cup {Undefined} :
       updateCartItem("u1", i, q, sz, Undefined)
  \/ \E sz \in Sizes : removeFromCart("u1", "p1", sz, "red")
  \/ \E i \in ItemIds : removeCartItem("u1", i)
  \/ clearCart("u1")
  \/ \E st \in StockEdits : updateProduct("p1", TRUE, st)

SpecCart == Init /\ [][NextCart]_vars

\* Two admins update the status of the one order of u1, their calls
\* interleaved await by await; they give a note while the order is pending.
NextUpdateRace ==
  \/ Shopping /\ addToCart("u1", "p1", 1, "S", "red")
  \/ createOrderFromCart("u1", 1, NoFault)
  \/ \E a \in Admins, o \in 0..1, st \in OrderStatus :
       updateOrderStatus_read(a, o, st,
         IF o \in 1..Len(orders) /\ orders[o].status # PENDING THEN NoNote ELSE "note")
  \/ \E a \in Admins : updateOrderStatus_save(a)
  \/ \E a \in Admins : updateOrderStatus_notify(a)

SpecUpdateRace == Init /\ [][NextUpdateRace]_vars

\* u1 fills the cart once and submits the checkout twice; the two calls
\* interleave await by await.
OwnCalls == {"u1", SecondCall}

NextDouble ==
  \/ Shopping /\ AllIdle /\ \E p \in Products, q \in Quantities : addToCart("u1", p, q, "S", "red")
  \/ \E call \in OwnCalls, n \in OrderNumbers : createOrderFromCart_read(call, n)
  \/ \E call \in OwnCalls : createOrderFromCart_save(call)
  \/ \E call \in OwnCalls : createOrderFromCart_notify(call)
  \/ \E call \in OwnCalls : createOrderFromCart_stock(call)
  \/ \E call \in OwnCalls : createOrderFromCart_cart(call)

SpecDouble == Init /\ [][NextDouble]_vars

\* u1 goes on editing the cart while the checkout of that cart is in flight.
NextLateAdd ==
  \/ (Shopping \/ ~AllIdle) /\ \E p \in Products : addToCart("u1", p, 1, "S", "red")
  \/ (Shopping \/ ~AllIdle) /\ \E q \in Quantities :
       updateCartItem("u1", 1, q, Undefined, Undefined)
  \/ \E n \in OrderNumbers : createOrderFromCart_read("u1", n)
  \/ createOrderFromCart_save("u1")
  \/ createOrderFromCart_notify("u1")
  \/ createOrderFromCart_stock("u1")
  \/ createOrderFromCart_cart("u1")

SpecLateAdd == Init /\ [][NextLateAdd]_vars

\* u1 fills a cart with p1 in one or two sizes, u2 takes one p1; their
\* checkouts interleave await by await.
NextVariants ==
  \/ /\ Shopping /\ AllIdle
     /\ \E q \in Quantities, sz \in Sizes : addToCart("u1", "p1", q, sz, "red")
  \/ Shopping /\ AllIdle /\ addToCart("u2", "p1", 1, "S", "red")
  \/ \E u \in Users : createOrderFromCart_read(u, IF u = "u1" THEN 1 ELSE 2)
  \/ \E u \in Users : createOrderFromCart_save(u)
  \/ \E u \in Users : createOrderFromCart_notify(u)
  \/ \E u \in Users : createOrderFromCart_stock(u)
  \/ \E u \in Users : createOrderFromCart_cart(u)

SpecVariants == Init /\ [][NextVariants]_vars

\* Sockets connect, join and leave the rooms of the users, and disconnect.
NextGateway ==
  \/ \E client \in Sockets : handleConnection(client)
  \/ \E client \in Sockets, u \in Users : handleJoinUserRoom(client, u)
  \/ \E client \in Sockets, room \in Rooms : handleLeaveRoom(client, room)
  \/ \E client \in Sockets : handleDisconnect(client)

SpecGateway == Init /\ [][NextGateway]_vars

\* Checkouts of the two users interleaved await by await.  The carts hold one
\* variant per product and are filled before the first checkout starts.
RaceShopStep ==
  /\ Shopping /\ AllIdle
  /\ \E u \in Users, p \in Products, q \in Quantities : addToCart(u, p, q, "S", "red")

NextRace ==
  \/ RaceShopStep
  \/ \E u \in Users, n \in OrderNumbers : createOrderFromCart_read(u, n)
  \/ \E u \in Users : createOrderFromCart_save(u)
  \/ \E u \in Users : createOrderFromCart_notify(u)
  \/ \E u \in Users : createOrderFromCart_stock(u)
  \/ \E u \in Users : createOrderFromCart_cart(u)

SpecRace == Init /\ [][NextRace]_vars

\* ------------------------------------------------------------------ claims
\* the transition table of the order status engine as the specification
\* states it
TransitionTable ==
  [s \in OrderStatus |->
     CASE s = "pending" -> {"confirmed", "cancelled"}
       [] s = "confirmed" -> {"processing", "cancelled"}
       [] s = "processing" -> {"shipped", "cancelled"}
       [] s = "shipped" -> {"delivered"}
       [] OTHER -> {}]

IsEdge(from, to) == to \in TransitionTable[from]

\* C1: OrdersService.updateOrderStatus on an existing order fails with
\* InvalidTransition exactly when (current status, requested status) is not
\* an edge of the transition table, and then the stored orders are unchanged;
\* it succeeds only on an edge, and on an edge it succeeds and stores the
\* requested status unless the save or the notification itself fails.
C1_UpdateFollowsTable ==
  [][(last'.op = "updateOrderStatus" /\ last'.order \in 1..Len(orders)) =>
       LET from == orders[last'.order].status
           to == last'.status
       IN /\ (last'.result = "InvalidTransition") <=> ~IsEdge(from, to)
          /\ ~IsEdge(from, to) => orders' = orders
          /\ last'.result = "ok" => IsEdge(from, to)
          /\ (IsEdge(from, to) /\ last'.fault = "none") =>
               /\ last'.result = "ok"
               /\ orders'[last'.order].status = to]_vars

\* a shipped order for which pending was requested: rejected, still shipped
C1_Witness ==
  /\ last.op = "updateOrderStatus"
  /\ last.result = "InvalidTransition"
  /\ last.status = "pending"
  /\ last.order \in 1..Len(orders)
  /\ orders[last.order].status = "shipped"

\* C2: every change of a stored order's status, by whichever operation, is
\* an edge of the transition table.
C2_StatusMovesAlongTable ==
  [][\A i \in 1..Len(orders) :
       orders'[i].status # orders[i].status =>
         IsEdge(orders[i].status, orders'[i].status)]_vars

\* C3: bulkUpdateOrders updates exactly the listed orders whose current
\* status allows the target status, leaves every other order's status alone
\* and notifies exactly the owners of the orders it updated.
C3_BulkAppliesRulePerOrder ==
  [][(last'.op = "bulkUpdateOrders" /\ last'.result = "ok") =>
       \A i \in 1..Len(orders) :
         LET allowed == i \in last'.ids /\ IsEdge(orders[i].status, last'.status)
             notified == \E k \in 1..Len(last'.emitted) :
                            /\ last'.emitted[k].orderId = i
                            /\ last'.emitted[k].room = orders[i].userId
         IN /\ allowed => orders'[i].status = last'.status
            /\ ~allowed => orders'[i].status = orders[i].status /\ ~notified]_vars

\* an entry asks for more than the stock of its (existing) product
EntryShort(e) ==
  products[e.productId].exists /\ e.quantity > products[e.productId].stock
\* an entry references a deleted or inactive product
EntryGone(e) ==
  ~products[e.productId].exists \/ ~products[e.productId].isActive

SomeEntry(items, P(_)) == \E i \in 1..Len(items) : P(items[i])
FirstOffender(items) ==
  CHOOSE i \in 1..Len(items) :
    /\ EntryShort(items[i]) \/ EntryGone(items[i])
    /\ \A j \in 1..(i - 1) : ~EntryShort(items[j]) /\ ~EntryGone(items[j])

StateUntouched == UNCHANGED <<orders, products, carts>>

\* C4 as stated: a cart with an entry that asks for more than the stock makes
\* the checkout fail with InsufficientStock and leaves orders, stock and carts
\* untouched.
C4_ShortEntryGivesInsufficientStock ==
  [][(last'.op = "createOrderFromCart" /\ SomeEntry(carts[last'.user].items, EntryShort)) =>
       last'.result = "InsufficientStock" /\ StateUntouched]_vars

\* C4 as amended: such a checkout fails and leaves orders, stock and carts
\* untouched; the error is that of the first entry that is unavailable or
\* short of stock: ProductUnavailable if its product is deleted or inactive,
\* InsufficientStock otherwise.
C4_ShortEntryRejectsCheckout ==
  [][(last'.op = "createOrderFromCart" /\ SomeEntry(carts[last'.user].items, EntryShort)) =>
       LET items == carts[last'.user].items IN
       /\ last'.result =
            IF EntryGone(items[FirstOffender(items)]) THEN "ProductUnavailable"
            ELSE "InsufficientStock"
       /\ StateUntouched]_vars

\* a rejected cart of two entries, one short of stock and one well stocked
C4_Witness ==
  /\ last.op = "createOrderFromCart"
  /\ last.result = "InsufficientStock"
  /\ orders = <<>>
  /\ LET items == carts[last.user].items IN
       /\ Len(items) = 2
       /\ \E i, j \in 1..2 :
            /\ EntryShort(items[i])
            /\ ~EntryShort(items[j]) /\ ~EntryGone(items[j])

\* C5: a checkout of a user whose cart is missing or has no entries fails
\* with CartEmpty and changes neither orders, stock nor carts, every time.
C5_EmptyCartNoEffect ==
  [][(/\ last'.op = "createOrderFromCart"
      /\ (~carts[last'.user].exists \/ carts[last'.user].items = <<>>)) =>
       last'.result = "CartEmpty" /\ StateUntouched]_vars

\* a checkout on a cart document without entries was refused
C5_Witness ==
  /\ last.op = "createOrderFromCart"
  /\ last.result = "CartEmpty"
  /\ carts[last.user].exists
  /\ carts[last.user].items = <<>>

C7_CheckoutAllOrNothing ==
  [][last'.op = "createOrderFromCart" =>
       \/ /\ last'.result = "ok"
          /\ Len(orders') = Len(orders) + 1
          /\ carts'[last'.user].items = <<>>
       \/ /\ last'.result # "ok"
          /\ StateUntouched]_vars

\* every entry is available and sufficiently stocked
CartValid(items) ==
  /\ items # <<>>
  /\ \A i \in 1..Len(items) : ~EntryGone(items[i]) /\ ~EntryShort(items[i])

\* C8: a checkout (without a failing store or notification) of a cart whose
\* entries are all active and sufficiently stocked adds exactly one order,
\* pending, owned by the caller, with one item per cart entry carrying that
\* entry's product, quantity, size and color.
C8_ValidCartGivesOneOrder ==
  [][(/\ last'.op = "createOrderFromCart"
      /\ last'.fault = "none"
      /\ CartValid(carts[last'.user].items)) =>
       LET items == carts[last'.user].items
           o == orders'[Len(orders')]
       IN /\ Len(orders') = Len(orders) + 1
          /\ SubSeq(orders', 1, Len(orders)) = orders
          /\ o.status = "pending"
          /\ o.userId = last'.user
          /\ Len(o.items) = Len(items)
          /\ \A i \in 1..Len(items) :
               /\ o.items[i].productId = items[i].productId
               /\ o.items[i].quantity = items[i].quantity
               /\ o.items[i].size = items[i].size
               /\ o.items[i].color = items[i].color]_vars

RECURSIVE SumOfItems(_, _)
SumOfItems(items, i) ==
  IF i > Len(items) THEN 0
  ELSE items[i].price * items[i].quantity + SumOfItems(items, i + 1)

RoundToCents(x) == ((2 * x + Cent) \div (2 * Cent)) * Cent

\* C9: every stored order has subtotal = sum of price * quantity over its
\* items, tax = 10% of the stored subtotal rounded to whole cents, and
\* total = subtotal + tax.
C9_TotalsConsistent ==
  \A i \in 1..Len(orders) :
    LET o == orders[i] IN
    /\ o.subtotal = SumOfItems(o.items, 1)
    /\ o.tax = RoundToCents(o.subtotal \div 10)
    /\ o.total = o.subtotal + o.tax

RECURSIVE QuantityOrdered(_, _, _)
QuantityOrdered(items, i, p) ==
  IF i > Len(items) THEN 0
  ELSE (IF items[i].productId = p THEN items[i].quantity ELSE 0)
         + QuantityOrdered(items, i + 1, p)

\* C10: a successful checkout lowers the stock of every product by the total
\* quantity of that product in the new order, and leaves the stock of the
\* products that are not in the order unchanged.
C10_StockLoweredByQuantityOrdered ==
  [][(last'.op = "createOrderFromCart" /\ last'.result = "ok") =>
       \A p \in Products :
         products'[p].stock =
           products[p].stock - QuantityOrdered(orders'[Len(orders')].items, 1, p)]_vars

RECURSIVE QuantityInOrders(_, _)
QuantityInOrders(i, p) ==
  IF i > Len(orders) THEN 0
  ELSE QuantityOrdered(orders[i].items, 1, p) + QuantityInOrders(i + 1, p)

\* C11: under every interleaving of the reads and writes of the checkouts of
\* different users, the total quantity of a product in the created orders
\* never exceeds the stock the product had before those checkouts.
C11_NeverOversold ==
  \A p \in Products : QuantityInOrders(1, p) <= InitStock

OrderNumbersOf(os) == {os[i].orderNumber : i \in 1..Len(os)}

\* C12: no two stored orders ever have the same orderNumber, and a checkout
\* that saves with a generated number equal to that of a stored order fails
\* and stores no order.
C12_OrderNumbersUnique ==
  /\ [](\A i, j \in 1..Len(orders) :
          i # j => orders[i].orderNumber # orders[j].orderNumber)
  /\ [][\A u \in Users :
          (/\ checkouts[u].pc = "save"
           /\ checkouts'[u].pc # "save"
           /\ checkouts[u].orderNumber \in OrderNumbersOf(orders)) =>
            /\ orders' = orders
            /\ last'.op = "createOrderFromCart"
            /\ last'.user = u
            /\ last'.result = "CheckoutFailed"]_vars

\* a checkout was refused on a stored order's number: a second order is not
\* stored, the stock and the cart of the refused user are as they were
C12_Witness ==
  /\ last.op = "createOrderFromCart"
  /\ last.result = "CheckoutFailed"
  /\ Len(orders) = 1
  /\ orders[1].userId # last.user
  /\ carts[last.user].items # <<>>

\* C13: when createOrderFromCart returns successfully, the cart of the calling
\* user has no entries.
C13_CartEmptyAfterCheckout ==
  [][(last'.op = "createOrderFromCart" /\ last'.result = "ok") =>
       /\ carts[last'.user].items # <<>>
       /\ carts'[last'.user].exists
       /\ carts'[last'.user].items = <<>>]_vars

\* a successful checkout of a cart of two entries: the order has both, the
\* cart has none
C13_Witness ==
  /\ last.op = "createOrderFromCart"
  /\ last.result = "ok"
  /\ last.order \in 1..Len(orders)
  /\ Len(orders[last.order].items) = 2
  /\ carts[last.user].items = <<>>

\* the fields of an order that are fixed at its creation
FrozenPart(o) ==
  [userId |-> o.userId, orderNumber |-> o.orderNumber, items |-> o.items,
   subtotal |-> o.subtotal, tax |-> o.tax, total |-> o.total]

\* C14: no operation removes a stored order or changes its owner, orderNumber,
\* items (with their prices), subtotal, tax or total.
C14_OrderFrozen ==
  [][/\ Len(orders') >= Len(orders)
     /\ \A i \in 1..Len(orders) : FrozenPart(orders'[i]) = FrozenPart(orders[i])]_vars

\* an order that went through status updates and got a note, whose product
\* was deleted since, with a later order next to it
C14_Witness ==
  /\ Len(orders) = 2
  /\ orders[1].status = "shipped"
  /\ Len(orders[1].orderNotes) > 1
  /\ ~products[orders[1].items[1].productId].exists
  /\ orders[1].items[1].price = SeedPrice[orders[1].items[1].productId]
  /\ orders[1].total > 0

\* C15: OrdersService.updateOrderStatus stores the new status before it emits
\* the notification: a call that emitted one has stored the status, a call
\* whose notification failed has stored it too and keeps it, and a call whose
\* save failed has emitted nothing and stored nothing.
C15_StatusPersistedBeforeNotification ==
  [][(last'.op = "updateOrderStatus" /\ last'.order \in 1..Len(orders)) =>
       LET o == last'.order IN
       /\ last'.emitted # <<>> => orders'[o].status = last'.status
       /\ last'.fault = "notify" =>
            /\ last'.emitted = <<>>
            /\ last'.result # "ok"
            /\ orders'[o].status = last'.status
       /\ last'.fault = "save" =>
            /\ last'.emitted = <<>>
            /\ orders' = orders]_vars

\* the notification of a pending -> confirmed update failed: the call failed,
\* the order is confirmed
C15_Witness ==
  /\ last.op = "updateOrderStatus"
  /\ last.fault = "notify"
  /\ last.result = "UpdateFailed"
  /\ last.status = "confirmed"
  /\ last.order \in 1..Len(orders)
  /\ orders[last.order].status = "confirmed"

\* the one notification a status update of order o to status st owes
OwnersNotification(o, st) ==
  [room |-> orders[o].userId, event |-> "order_status_update", orderId |-> o,
   status |-> st]

\* C16: a successful status update (OrdersService or admin) of an order emits
\* exactly one order_status_update, to the room of the order's owner, with the
\* new status; a bulk update emits exactly one such notification per order it
\* updated and none for any other order; an update that fails with
\* OrderNotFound or InvalidTransition emits nothing.
C16_OneNotificationToOwner ==
  [][LET single == last'.op \in {"updateOrderStatus", "adminUpdateOrderStatus"} IN
     /\ (single /\ last'.result = "ok") =>
          /\ last'.order \in 1..Len(orders)
          /\ orders'[last'.order].status = last'.status
          /\ last'.emitted = <<OwnersNotification(last'.order, last'.status)>>
     /\ (single /\ last'.result \in {"OrderNotFound", "InvalidTransition"}) =>
          /\ last'.emitted = <<>>
          /\ orders' = orders
     /\ (last'.op = "bulkUpdateOrders" /\ last'.result = "ok") =>
          /\ \A i \in 1..Len(orders) :
               Cardinality({k \in 1..Len(last'.emitted) : last'.emitted[k].orderId = i})
                 = IF i \in last'.ids THEN 1 ELSE 0
          /\ \A k \in 1..Len(last'.emitted) :
               /\ last'.emitted[k].orderId \in 1..Len(orders)
               /\ last'.emitted[k] = OwnersNotification(last'.emitted[k].orderId, last'.status)]_vars

\* two orders of different owners; the update of the second one notified its
\* owner only
C16_Witness ==
  /\ Len(orders) = 2
  /\ orders[1].userId # orders[2].userId
  /\ last.op = "updateOrderStatus"
  /\ last.result = "ok"
  /\ last.order = 2
  /\ Len(last.emitted) = 1
  /\ last.emitted[1].room = orders[2].userId

\* C17: a checkout emits its new-order notification to the admin channel
\* only after the order is stored, the stock of every ordered product is
\* written and the cart is cleared; it emits exactly one per created order and
\* a failed checkout emits none.
C17_NotificationLast ==
  /\ [](\A u \in Users :
          checkouts[u].emitted # <<>> =>
            /\ checkouts[u].orderId \in 1..Len(orders)
            /\ checkouts[u].k > Len(checkouts[u].items)
            /\ carts[u].items = <<>>)
  /\ [][last'.op = "createOrderFromCart" =>
          IF last'.result = "ok"
          THEN /\ Len(last'.emitted) = 1
               /\ last'.emitted[1].room = "admin"
               /\ last'.emitted[1].orderId = last'.order
          ELSE last'.emitted = <<>>]_vars

IsPrefix(a, b) == Len(a) <= Len(b) /\ SubSeq(b, 1, Len(a)) = a

Foreign(u, o) == o \in 1..Len(orders) /\ orders[o].userId # u
\* no order has this id
Absent(o) == o \notin 1..Len(orders)

RulePrice(product) == IF product.isOnSale THEN product.salePrice ELSE product.price

\* C20: every item of a new order carries the sale price of its product if
\* the product is on sale at checkout and the base price otherwise; and a
\* checkout that directly follows the caller's getCart stores the subtotal
\* getCart reported.
C20_OrderPriceIsCartPrice ==
  [][(last'.op = "createOrderFromCart" /\ last'.result = "ok") =>
       LET o == orders'[Len(orders')] IN
       /\ \A i \in 1..Len(o.items) :
            o.items[i].price = RulePrice(products[o.items[i].productId])
       /\ (last.op = "getCart" /\ last.user = last'.user) =>
            o.subtotal = last.body.subtotal]_vars

\* C21: getOrderStatistics reports a count for each of the six statuses,
\* each the number of stored orders in that status, and the reported counts
\* sum to the reported totalOrders.
StatusCountFields ==
  {"pendingOrders", "confirmedOrders", "processingOrders", "shippedOrders",
   "deliveredOrders", "cancelledOrders"}

C21_StatisticsCountEveryStatus ==
  [][last'.op = "getOrderStatistics" =>
       LET b == last'.body
           reported == StatusCountFields \cap DOMAIN b
           RECURSIVE SumOf(_)
           SumOf(fs) == IF fs = {} THEN 0
                        ELSE LET f == CHOOSE f \in fs : TRUE
                             IN b[f] + SumOf(fs \ {f})
       IN /\ reported = StatusCountFields
          /\ SumOf(reported) = b.totalOrders]_vars

CartWrites ==
  {"addToCart", "updateCartItem", "removeFromCart", "removeCartItem", "clearCart"}

SameVariant(a, b) ==
  a.productId = b.productId /\ a.size = b.size /\ a.color = b.color

NoDuplicateVariant(items) ==
  \A i, j \in 1..Len(items) : SameVariant(items[i], items[j]) => i = j

\* C22: after any sequence of cart writes no cart holds two entries of one
\* (product, size, color); a successful addToCart of a variant the cart holds
\* raises the quantity of that entry and adds no entry, and of another
\* variant appends a separate entry.
C22_OneEntryPerVariant ==
  /\ [](\A u \in Users : NoDuplicateVariant(carts[u].items))
  /\ [][(last'.op = "addToCart" /\ last'.result = "ok") =>
          LET u == last'.user
              old == carts[u].items
              new == carts'[u].items
          IN \/ /\ Len(new) = Len(old)
                /\ \E i \in 1..Len(old) :
                     /\ new[i].quantity > old[i].quantity
                     /\ new = [old EXCEPT ![i].quantity = new[i].quantity]
             \/ /\ Len(new) = Len(old) + 1
                /\ SubSeq(new, 1, Len(old)) = old
                /\ \A i \in 1..Len(old) : ~SameVariant(old[i], new[Len(new)])]_vars

\* the entries a cart write touched: new ones and changed ones
Affected(old, new) ==
  {i \in 1..Len(new) : i > Len(old) \/ new[i] # old[i]}

\* C23: after a successful addToCart or updateCartItem the quantity of the
\* entry it touched is at most the stock of its product at that moment; a
\* rejected request leaves the cart as it was.
C23_QuantityWithinStock ==
  [][last'.op \in {"addToCart", "updateCartItem"} =>
       LET old == carts[last'.user].items
           new == carts'[last'.user].items
       IN IF last'.result = "ok"
          THEN \A i \in Affected(old, new) :
                 new[i].quantity <= products'[new[i].productId].stock
          ELSE carts' = carts]_vars

\* C24: when OrdersService.updateOrderStatus calls on one order interleave,
\* every change of the stored status is an edge of the transition table, and
\* a save keeps the notes stored before it, the line of an earlier saver
\* included.
C24_InterleavedUpdatesKeepTableAndNotes ==
  [][\A i \in 1..Len(orders) :
       /\ orders'[i].status # orders[i].status =>
            IsEdge(orders[i].status, orders'[i].status)
       /\ IsPrefix(orders[i].orderNotes, orders'[i].orderNotes)]_vars

\* C25: once every interleaved checkout has completed, the stock of each
\* product is its initial stock minus the total quantity of it in the created
\* orders (no admin edits the stock in these behaviours): no stock write of a
\* checkout is lost.
C25_NoLostStockWrite ==
  AllIdle =>
    \A p \in Products : products[p].stock = InitStock - QuantityInOrders(1, p)

\* C26: two createOrderFromCart calls of one user that interleave on the same
\* cart contents never both succeed: the one cart filling of these behaviours
\* yields at most one order.
C26_OneOrderPerCartFilling ==
  Len(orders) <= 1

\* C27: every cart entry that the cart-clear of a successful checkout removes
\* is in the order that checkout created, with its variant and quantity: what
\* the user put into the cart between the checkout's cart read and its cart
\* clear is not discarded.
C27_ClearedEntriesAreOrdered ==
  [][(last'.op = "createOrderFromCart" /\ last'.result = "ok") =>
       LET removed == carts[last'.user].items
           ordered == orders'[last'.order].items
       IN \A i \in 1..Len(removed) :
            \E j \in 1..Len(ordered) :
              /\ SameVariant(removed[i], ordered[j])
              /\ removed[i].quantity = ordered[j].quantity]_vars

\* C28: the stored stock of a product is never negative, whatever checkouts
\* run and however they interleave, also when a cart holds one product in
\* several variants.
C28_StockNeverNegative ==
  \A p \in Products : products[p].exists => products[p].stock >= 0

\* a completed order holds p1 in two variants whose quantities together
\* exceed the stock p1 had, and another order was placed besides
C28_Witness ==
  /\ AllIdle
  /\ Len(orders) = 2
  /\ \E i \in 1..2 :
       /\ Len(orders[i].items) = 2
       /\ orders[i].items[1].productId = orders[i].items[2].productId
       /\ orders[i].items[1].quantity + orders[i].items[2].quantity > InitStock
  /\ products["p1"].stock >= 0

\* C29: through OrdersService.updateOrderStatus an order undergoes at most
\* four successful status updates (the one order of these behaviours), and
\* once it is delivered or cancelled its status stays: the sequence of its
\* updates ends there.
C29_AtMostFourUpdates ==
  /\ [](SuccessfulUpdates <= 4)
  /\ [][\A i \in 1..Len(orders) :
          orders[i].status \in {DELIVERED, CANCELLED} =>
            orders'[i].status = orders[i].status]_vars

\* the connected sockets that have joined and not left the room of user u
InRoomOf(u) ==
  {client \in gateway.connectedClients : <<client, UserRoom(u)>> \in gateway.rooms}

\* C30: after any sequence of connect, join_user_room, leave_room and
\* disconnect events, isUserOnline(u) is true exactly when some connected
\* socket is in the room of u; no entry of userSessions refers to a socket
\* that has disconnected.
C30_OnlineIffSocketInRoom ==
  /\ \A u \in Users : isUserOnline(u) <=> InRoomOf(u) # {}
  /\ \A i \in 1..Len(gateway.userSessions) :
       gateway.userSessions[i].socketId \in gateway.connectedClients

====
